---- MODULE Spec2Model ----
(***************************************************************************)
(* Model of HomeLib/image_utils.py: conversion of a numpy grid into a      *)
(* vtkImageData / vtkOrientedImageData, and registration of volume and     *)
(* segmentation nodes in the MRML scene.                                   *)
(*                                                                         *)
(* A numpy array is a record [id, shape, dtype, order, data]: id names the *)
(* memory it lives in ("array" = the grid the caller keeps, "temp" = a     *)
(* temporary), data is the sequence of its elements in logical row-major   *)
(* order, order is its memory layout.  A vtk data array either owns its    *)
(* storage (owner = TRUE, data inline) or points at numpy memory           *)
(* (owner = FALSE, ptr = the id of that memory).                           *)
(***************************************************************************)
EXTENDS Integers, Sequences, FiniteSets, TLC

VARIABLES array, scene, last

vars == <<array, scene, last>>

(* ---------------------------- bounds ----------------------------------- *)

MaxRank == 3

MaxCells == 4

MaxNodes == 4

(* ---------------------------- input sets ------------------------------- *)

Labels == {0, 1}

DTypes == {"int8", "complex64", "bool"}

Orders == {"C", "F", "S"}

NodeNames == {"CXR"}

SegmentNames == {"lung", "heart"}

Identity3 == <<<<1, 0, 0>>, <<0, 1, 0>>, <<0, 0, 1>>>>

Flip3 == <<<<-1, 0, 0>>, <<0, -1, 0>>, <<0, 0, 1>>>>

DirectionSets == {Identity3, Flip3}

RECURSIVE Prod(_)
Prod(s) == IF Len(s) = 0 THEN 1 ELSE Head(s) * Prod(Tail(s))

NonUnitDims(s) == Cardinality({i \in DOMAIN s : s[i] # 1})

Shapes == {s \in UNION {[1..r -> 1..MaxCells] : r \in 0..MaxRank} : Prod(s) <= MaxCells}

\* numpy's flags: an array of at most one element, or whose memory is laid out
\* in row-major order without gaps, is C-contiguous.  Order "F" (column-major,
\* e.g. a transpose) differs from "C" only when two axes are longer than 1;
\* order "S" (a strided view with gaps) only when there is more than one element.
ValidOrder(shape, order) ==
    \/ order = "C"
    \/ order = "F" /\ NonUnitDims(shape) >= 2
    \/ order = "S" /\ Prod(shape) > 1

GridsWithId(id) ==
    UNION {{[id |-> id, shape |-> s, dtype |-> t, order |-> o, data |-> d] :
              t \in DTypes, o \in {x \in Orders : ValidOrder(s, x)},
              d \in [1..Prod(s) -> Labels]} : s \in Shapes}

\* dicts keep insertion order: a dict is a sequence of <<key, value>> pairs
\* with distinct keys; the class names of the inputs are distinct too
ClassNameDicts ==
    {c \in UNION {[1..n -> Labels \X SegmentNames] : n \in 0..Cardinality(Labels)} :
        \A i, j \in DOMAIN c : (c[i][1] = c[j][1] \/ c[i][2] = c[j][2]) => i = j}

(* ---------------------------- numpy / vtk ------------------------------ *)

c_contiguous_unchecked(a) == TRUE

\* array.flags.c_contiguous
c_contiguous(a) == a.order = "C"

\* vtk.util.numpy_support.get_vtk_array_type: first entry of its table that the
\* dtype equals or is a subdtype of; TypeError when there is none
get_vtk_array_type(dtype) ==
    CASE dtype = "uint8" -> "VTK_UNSIGNED_CHAR"
      [] dtype = "int8" -> "VTK_CHAR"
      [] dtype = "int16" -> "VTK_SHORT"
      [] dtype = "int32" -> "VTK_INT"
      [] dtype = "float32" -> "VTK_FLOAT"
      [] dtype = "float64" -> "VTK_DOUBLE"
      [] dtype = "complex64" -> "VTK_FLOAT"
      [] dtype = "complex128" -> "VTK_DOUBLE"
      [] OTHER -> "TypeError"

\* vtk.util.numpy_support.get_numpy_array_type
get_numpy_array_type(vtk_type) ==
    CASE vtk_type = "VTK_UNSIGNED_CHAR" -> "uint8"
      [] vtk_type = "VTK_CHAR" -> "int8"
      [] vtk_type = "VTK_SHORT" -> "int16"
      [] vtk_type = "VTK_INT" -> "int32"
      [] vtk_type = "VTK_FLOAT" -> "float32"
      [] vtk_type = "VTK_DOUBLE" -> "float64"
      [] OTHER -> "none"

\* np.issubdtype on two concrete scalar types
issubdtype(t, u) == t = u

\* the assertion of line 43
RoundTrips(dtype) ==
    LET arr_dtype == get_numpy_array_type(get_vtk_array_type(dtype))
    IN  issubdtype(dtype, arr_dtype) \/ dtype = arr_dtype

\* np.ravel of a C-contiguous array: a flat view of the same memory
ravel(a) == [id |-> a.id, data |-> a.data]

\* vtkDataArray.CreateDataArray + SetNumberOfComponents(1) + SetNumberOfTuples
CreateDataArray(vtk_type, ntuples) ==
    [type |-> vtk_type, ntuples |-> ntuples, owner |-> TRUE, ptr |-> "none",
     data |-> [i \in 1..ntuples |-> 0]]

\* SetVoidArray(array_flat, len(array_flat), 1): the vtk array now points at
\* the numpy memory and does not own it
SetVoidArray(vtk_array, array_flat) ==
    [vtk_array EXCEPT !.ntuples = Len(array_flat.data), !.owner = FALSE,
                      !.ptr = array_flat.id, !.data = <<>>]

DeepCopy_shallow(vtk_array, array_flat) == vtk_array

\* NewInstance + DeepCopy: a new vtk array with its own storage, holding what
\* the pointed-at memory holds now
DeepCopy(vtk_array, array_flat) ==
    [vtk_array EXCEPT !.owner = TRUE, !.ptr = "none", !.data = array_flat.data]

NoExc == [type |-> "none", check |-> "none", got |-> 0]

Raise(type, check, got) == [type |-> type, check |-> check, got |-> got]

default_copy_off == FALSE

\* the default of the copy parameter (line 10)
default_copy == TRUE

wrong_rank_below_two(a) == Len(a.shape) < 2

\* the condition of line 26
wrong_rank(a) == Len(a.shape) # 2

Dimensions_swapped(a) == <<a.shape[2], a.shape[1], 1>>

\* the argument of SetDimensions (line 60)
Dimensions(a) == <<a.shape[1], a.shape[2], 1>>

Failed(exc) == [exc |-> exc, image |-> <<>>]

\* create_image_data_from_numpy_array: [exc, image], image a sequence of 0 or 1
create_image_data_from_numpy_array(a, oriented, copy) ==
    IF wrong_rank(a)
    THEN Failed(Raise("ValueError", "dimensionality", Len(a.shape)))
    ELSE
      LET vtk_type == get_vtk_array_type(a.dtype) IN
      IF vtk_type = "TypeError"
      THEN Failed(Raise("TypeError", "get_vtk_array_type", 0))
      ELSE
        IF ~c_contiguous(a)
        THEN Failed(Raise("AssertionError", "contiguity", 0))
        ELSE
          IF ~RoundTrips(a.dtype)
          THEN Failed(Raise("AssertionError", "round_trip", 0))
          ELSE
            LET array_flat == ravel(a)
                vtk_array == SetVoidArray(CreateDataArray(vtk_type, Prod(a.shape)),
                                          array_flat)
                scalars == IF copy THEN DeepCopy(vtk_array, array_flat) ELSE vtk_array
            IN  [exc |-> NoExc,
                 image |-> <<[oriented |-> oriented,
                              dims |-> Dimensions(a),
                              directions |-> Identity3,
                              scalars |-> scalars]>>]

(* ---------------------------- MRML scene ------------------------------- *)

\* the scene is the sequence of its nodes, in the order they were added

RECURSIVE MaxId(_)
MaxId(s) == IF Len(s) = 0 THEN 0
            ELSE IF Head(s).id > MaxId(Tail(s)) THEN Head(s).id ELSE MaxId(Tail(s))

NewId(s) == MaxId(s) + 1

NodeIds(s) == {s[i].id : i \in DOMAIN s}

GetNode(s, id) == s[CHOOSE i \in DOMAIN s : s[i].id = id]

SetNode(s, n) == [i \in DOMAIN s |-> IF s[i].id = n.id THEN n ELSE s[i]]

\* a node as its class constructs it
NewNode(id, class, name) ==
    [id |-> id, class |-> class, name |-> name,
     origin |-> <<0, 0, 0>>, spacing |-> <<1, 1, 1>>, directions |-> Identity3,
     image |-> <<>>, segments |-> <<>>, reference |-> 0, display |-> 0]

AddNewNodeByClass_singleton(s, class, name) ==
    Append(SelectSeq(s, LAMBDA n : ~(n.class = class /\ n.name = name)),
           NewNode(NewId(s), class, name))

\* slicer.mrmlScene.AddNewNodeByClass
AddNewNodeByClass(s, class, name) == Append(s, NewNode(NewId(s), class, name))

SetOrigin(n, o) == [n EXCEPT !.origin = o]

SetSpacing(n, sp) == [n EXCEPT !.spacing = sp]

SetIJKToRASDirections_dropped(n, d) == n

SetIJKToRASDirections(n, d) == [n EXCEPT !.directions = d]

SetAndObserveImageData(n, img) == [n EXCEPT !.image = <<img>>]

GetIJKToRASDirections_unread(n) == <<<<0, 0, 0>>, <<0, 0, 0>>, <<0, 0, 0>>>>

\* vol_node.GetIJKToRASDirections(ijk_to_ras_directions) fills the 3x3 array
GetIJKToRASDirections(n) == n.directions

SetReferenceImageGeometryParameterFromVolumeNode(n, vol_id) ==
    [n EXCEPT !.reference = vol_id]

DisplayClass(class) ==
    IF class = "vtkMRMLScalarVolumeNode" THEN "vtkMRMLScalarVolumeDisplayNode"
    ELSE "vtkMRMLSegmentationDisplayNode"

\* CreateDefaultDisplayNodes: a display node is added to the scene for a node
\* that has none
CreateDefaultDisplayNodes(s, id) ==
    IF GetNode(s, id).display # 0 THEN s
    ELSE LET d == NewId(s)
             s1 == AddNewNodeByClass(s, DisplayClass(GetNode(s, id).class),
                                     GetNode(s, id).name)
         IN  SetNode(s1, [GetNode(s1, id) EXCEPT !.display = d])

SetDirections(img, d) == [img EXCEPT !.directions = d]

AddSegmentFromBinaryLabelmapRepresentation(n, img, segmentName) ==
    [n EXCEPT !.segments = Append(@, [name |-> segmentName, labelmap |-> img])]

binary_labelmap_array_inverted(a, class_label) ==
    [id |-> "temp", shape |-> a.shape, dtype |-> "int8",
     order |-> IF a.order = "F" THEN "F" ELSE "C",
     data |-> [i \in DOMAIN a.data |-> IF a.data[i] # class_label THEN 1 ELSE 0]]

\* (array == class_label).astype('int8'): a new array of the shape of array,
\* laid out like array when array is column-major, row-major otherwise
binary_labelmap_array(a, class_label) ==
    [id |-> "temp", shape |-> a.shape, dtype |-> "int8",
     order |-> IF a.order = "F" THEN "F" ELSE "C",
     data |-> [i \in DOMAIN a.data |-> IF a.data[i] = class_label THEN 1 ELSE 0]]

Result(exc, s, node) == [exc |-> exc, scene |-> s, node |-> node]

\* create_volume_node_from_numpy_array: [exc, scene, node].
\* CreateDefaultStorageNode returns a storage node that is not added to the scene.
create_volume_node_from_numpy_array(s, a, ijk_to_ras_directions, node_name) ==
    LET conv == create_image_data_from_numpy_array(a, FALSE, default_copy) IN
    IF conv.exc # NoExc THEN Result(conv.exc, s, 0)
    ELSE
      LET id == NewId(s)
          s1 == AddNewNodeByClass(s, "vtkMRMLScalarVolumeNode", node_name)
          n1 == SetOrigin(GetNode(s1, id), <<0, 0, 0>>)
          n2 == SetSpacing(n1, <<1, 1, 1>>)
          n3 == SetIJKToRASDirections(n2, ijk_to_ras_directions)
          n4 == SetAndObserveImageData(n3, conv.image[1])
      IN  Result(NoExc, CreateDefaultDisplayNodes(SetNode(s1, n4), id), id)

\* the loop of lines 109-113 from the i-th key of class_names on
RECURSIVE AddSegments(_, _, _, _, _, _)
AddSegments(s, id, a, class_names, ijk_to_ras_directions, i) ==
    IF i > Len(class_names) THEN Result(NoExc, s, id)
    ELSE
      LET class_label == class_names[i][1]
          conv == create_image_data_from_numpy_array(
                      binary_labelmap_array(a, class_label), TRUE, default_copy)
      IN  IF conv.exc # NoExc THEN Result(conv.exc, s, 0)
          ELSE
            LET orientedImageData == SetDirections(conv.image[1], ijk_to_ras_directions)
                n == AddSegmentFromBinaryLabelmapRepresentation(
                         GetNode(s, id), orientedImageData, class_names[i][2])
            IN  AddSegments(SetNode(s, n), id, a, class_names,
                            ijk_to_ras_directions, i + 1)

\* create_segmentation_node_from_numpy_array: [exc, scene, node]
create_segmentation_node_from_numpy_array(s, a, class_names, node_name, vol_id) ==
    LET ijk_to_ras_directions == GetIJKToRASDirections(GetNode(s, vol_id))
        id == NewId(s)
        s1 == AddNewNodeByClass(s, "vtkMRMLSegmentationNode", node_name)
        s2 == SetNode(s1, SetReferenceImageGeometryParameterFromVolumeNode(
                              GetNode(s1, id), vol_id))
        s3 == CreateDefaultDisplayNodes(s2, id)
    IN  AddSegments(s3, id, a, class_names, ijk_to_ras_directions, 1)

(* ---------------------------- state ------------------------------------ *)

\* array: the grid the caller keeps (a sequence of 0 or 1 numpy arrays);
\* scene: slicer.mrmlScene; last: the caller's last call: its arguments other
\* than the grid (copy, directions, class_names, node_name, vol_node), the
\* exception it raised and what it returned (node or image)

NoCall ==
    [op |-> "none", exc |-> NoExc, node |-> 0, image |-> <<>>, copy |-> FALSE,
     directions |-> <<>>, class_names |-> <<>>, node_name |-> "", vol_node |-> 0]

\* what the memory named ptr holds
Deref(ptr, arr) == CASE ptr = "array" /\ arr # <<>> -> arr[1].data

\* the scalars an image shows, given the caller's grid
Scalars(img, arr) ==
    IF img.scalars.owner THEN img.scalars.data ELSE Deref(img.scalars.ptr, arr)

VolumeNodeIds(s) ==
    {s[i].id : i \in {j \in DOMAIN s : s[j].class = "vtkMRMLScalarVolumeNode"}}

\* the grid of the volume that is in the scene when the caller starts
ReferenceGrid ==
    [id |-> "temp", shape |-> <<1, 1>>, dtype |-> "int8", order |-> "C",
     data |-> <<0>>]

\* calls are explored while the scene has room for a node and its display node
HasRoom == Len(scene) + 2 <= MaxNodes

Init ==
    /\ array \in {<<g>> : g \in GridsWithId("array")}
    /\ \E name \in NodeNames :
          scene = create_volume_node_from_numpy_array(<<>>, ReferenceGrid, Flip3,
                                                      name).scene
    /\ last = NoCall

\* the caller converts its grid and keeps the image
ConvertCall(oriented, copy) ==
    /\ HasRoom
    /\ LET r == create_image_data_from_numpy_array(array[1], oriented, copy)
       IN  last' = [NoCall EXCEPT !.op = "create_image_data", !.exc = r.exc,
                                  !.image = r.image, !.copy = copy]
    /\ UNCHANGED <<array, scene>>

\* the caller writes v into element i of its grid
WriteCall(i, v) ==
    /\ i \in DOMAIN array[1].data
    /\ array[1].data[i] # v
    /\ array' = <<[array[1] EXCEPT !.data[i] = v]>>
    /\ UNCHANGED <<scene, last>>

VolumeCall(ijk_to_ras_directions, node_name) ==
    /\ HasRoom
    /\ LET r == create_volume_node_from_numpy_array(scene, array[1],
                                                    ijk_to_ras_directions, node_name)
       IN  /\ scene' = r.scene
           /\ last' = [NoCall EXCEPT !.op = "create_volume_node", !.exc = r.exc,
                                     !.node = r.node, !.copy = default_copy,
                                     !.directions = ijk_to_ras_directions,
                                     !.node_name = node_name]
    /\ UNCHANGED array

SegmentationCall(class_names, node_name, vol_id) ==
    /\ HasRoom
    /\ LET r == create_segmentation_node_from_numpy_array(scene, array[1], class_names,
                                                          node_name, vol_id)
       IN  /\ scene' = r.scene
           /\ last' = [NoCall EXCEPT !.op = "create_segmentation_node", !.exc = r.exc,
                                     !.node = r.node, !.copy = default_copy,
                                     !.class_names = class_names,
                                     !.node_name = node_name, !.vol_node = vol_id]
    /\ UNCHANGED array

CreateImageData == \E oriented, copy \in BOOLEAN : ConvertCall(oriented, copy)

WriteArray == \E i \in 1..MaxCells, v \in Labels : WriteCall(i, v)

CreateVolumeNode == \E d \in DirectionSets, name \in NodeNames : VolumeCall(d, name)

CreateSegmentationNode ==
    \E c \in ClassNameDicts, name \in NodeNames, v \in VolumeNodeIds(scene) :
        SegmentationCall(c, name, v)

Next ==
    \/ CreateImageData
    \/ WriteArray
    \/ CreateVolumeNode
    \/ CreateSegmentationNode

Spec == Init /\ [][Next]_vars

(* ---------------------------- properties ------------------------------- *)

Grid == array[1]

Succeeded(op) == last.op = op /\ last.exc = NoExc

DistinctLabels(a) == {a.data[i] : i \in DOMAIN a.data}

\* 1 where the grid equals the label, 0 elsewhere
Indicator(a, label) == [p \in DOMAIN a.data |-> IF a.data[p] = label THEN 1 ELSE 0]

\* the images the nodes of a scene hold
SceneImages(s) ==
    UNION {{s[i].image[j] : j \in DOMAIN s[i].image}
             \cup {s[i].segments[j].labelmap : j \in DOMAIN s[i].segments} :
           i \in DOMAIN s}

\* C1: a grid whose rank is not 2 makes create_image_data_from_numpy_array raise
\* the ValueError that names the rank, whatever its scalar type, its layout and
\* the flags, and no image is returned
C1_RankRejectedFirst ==
    (last.op = "create_image_data" /\ Len(Grid.shape) # 2) =>
        /\ last.exc = [type |-> "ValueError", check |-> "dimensionality",
                       got |-> Len(Grid.shape)]
        /\ last.image = <<>>

C1_Witness ==
    /\ last.op = "create_image_data"
    /\ Len(Grid.shape) = 3
    /\ Grid.dtype = "bool"
    /\ Grid.order = "F"
    /\ ~last.copy
    /\ last.exc.type = "ValueError"

\* C2: while the caller holds an image converted with copy enabled, no step
\* (no write to the source grid) changes a scalar of that image
C2_CopyKeepsItsScalars ==
    [][(Succeeded("create_image_data") /\ last.copy /\ last' = last) =>
          Scalars(last.image[1], array') = Scalars(last.image[1], array)]_vars

C2_Witness ==
    /\ Succeeded("create_image_data")
    /\ last.copy
    /\ Scalars(last.image[1], array) # Grid.data

\* C3 as claimed: a successful create_segmentation_node_from_numpy_array gives
\* the node exactly k segments, k the number of distinct labels of the grid, one
\* per distinct label, each mask the indicator of its label
C3_SegmentPerDistinctLabel ==
    [][(scene' # scene /\ last'.op = "create_segmentation_node" /\ last'.exc = NoExc) =>
          LET n == GetNode(scene', last'.node)
              masks == {n.segments[i].labelmap.scalars.data : i \in DOMAIN n.segments}
          IN  /\ Len(n.segments) = Cardinality(DistinctLabels(Grid))
              /\ masks = {Indicator(Grid, l) : l \in DistinctLabels(Grid)}]_vars

\* C3 amended: a successful create_segmentation_node_from_numpy_array gives the
\* node exactly one segment per key of class_names, in the order of the keys,
\* named class_names[key], whose mask is 1 exactly where the grid equals the key
\* and 0 elsewhere; these are k segments, one per distinct label of the grid,
\* when the keys of class_names are exactly the distinct labels of the grid
C3_SegmentPerClassName ==
    [][(scene' # scene /\ last'.op = "create_segmentation_node" /\ last'.exc = NoExc) =>
          LET n == GetNode(scene', last'.node)
              cn == last'.class_names
          IN  /\ n.class = "vtkMRMLSegmentationNode"
              /\ Len(n.segments) = Len(cn)
              /\ \A i \in DOMAIN cn :
                    /\ n.segments[i].name = cn[i][2]
                    /\ n.segments[i].labelmap.scalars.owner
                    /\ n.segments[i].labelmap.scalars.data = Indicator(Grid, cn[i][1])
                    /\ n.segments[i].labelmap.dims = <<Grid.shape[1], Grid.shape[2], 1>>
              /\ ({cn[i][1] : i \in DOMAIN cn} = DistinctLabels(Grid) =>
                    Len(n.segments) = Cardinality(DistinctLabels(Grid)))]_vars

C3_Witness ==
    /\ Succeeded("create_segmentation_node")
    /\ Len(GetNode(scene, last.node).segments) = 2
    /\ GetNode(scene, last.node).segments[1].labelmap.scalars.data = <<0, 1, 1, 0>>
    /\ Cardinality(DistinctLabels(Grid)) = 2

\* C4: an accepted grid of shape (rows, cols) gives an image of dimensions
\* [rows, cols, 1] that holds rows * cols scalars, with either flag either way
C4_DimensionsAreRowsColsOne ==
    Succeeded("create_image_data") =>
        LET img == last.image[1]
        IN  /\ img.dims = <<Grid.shape[1], Grid.shape[2], 1>>
            /\ img.scalars.ntuples = Grid.shape[1] * Grid.shape[2]
            /\ Len(Scalars(img, array)) = img.dims[1] * img.dims[2] * img.dims[3]

C4_Witness ==
    /\ Succeeded("create_image_data")
    /\ last.image[1].dims = <<1, 3, 1>>
    /\ last.image[1].oriented
    /\ ~last.copy

\* C5 as claimed: the conversion rejects a grid only by its dimensionality check
\* or its round-trip assertion (or an error of the type mapping), so a 2-D grid
\* whose scalar type round-trips is accepted
C5_OnlyTwoChecks ==
    last.op = "create_image_data" =>
        /\ last.exc.check \in {"none", "dimensionality", "round_trip", "get_vtk_array_type"}
        /\ (Len(Grid.shape) = 2 /\ RoundTrips(Grid.dtype)) => last.exc = NoExc

\* C5 amended: the conversion has three explicit checks, the dimensionality
\* check (ValueError), the contiguity assertion and the round-trip assertion,
\* and the type mapping may raise; a grid is accepted exactly when it is 2-D,
\* C-contiguous and its scalar type round-trips, and a 2-D grid of a mapped
\* scalar type that is not C-contiguous fails the contiguity assertion
C5_ThreeChecks ==
    last.op = "create_image_data" =>
        /\ last.exc.check \in {"none", "dimensionality", "contiguity", "round_trip",
                               "get_vtk_array_type"}
        /\ last.exc = NoExc <=>
              (Len(Grid.shape) = 2 /\ Grid.order = "C" /\ RoundTrips(Grid.dtype))
        /\ (Len(Grid.shape) = 2 /\ Grid.order # "C" /\ Grid.dtype # "bool") =>
              last.exc = [type |-> "AssertionError", check |-> "contiguity", got |-> 0]

C5_Witness ==
    /\ last.op = "create_image_data"
    /\ Grid.shape = <<2, 2>>
    /\ Grid.dtype = "int8"
    /\ Grid.order = "F"
    /\ last.exc.check = "contiguity"

\* C6: a successful create_volume_node_from_numpy_array adds one volume node
\* to the scene and returns it, with origin 0, spacing 1, the directions of
\* the caller and the non-oriented image of the grid
C6_VolumeNodeRegistered ==
    [][(array' = array /\ last'.op = "create_volume_node" /\ last'.exc = NoExc) =>
          LET n == GetNode(scene', last'.node)
          IN  /\ last'.node \notin NodeIds(scene)
              /\ VolumeNodeIds(scene') = VolumeNodeIds(scene) \cup {last'.node}
              /\ \A i \in DOMAIN scene : scene'[i] = scene[i]
              /\ n.class = "vtkMRMLScalarVolumeNode"
              /\ n.name = last'.node_name
              /\ n.origin = <<0, 0, 0>>
              /\ n.spacing = <<1, 1, 1>>
              /\ n.directions = last'.directions
              /\ Len(n.image) = 1
              /\ ~n.image[1].oriented
              /\ n.image[1].dims = <<Grid.shape[1], Grid.shape[2], 1>>
              /\ n.image[1].scalars.owner
              /\ n.image[1].scalars.data = Grid.data]_vars

C6_Witness ==
    /\ Succeeded("create_volume_node")
    /\ last.directions = Identity3
    /\ GetNode(scene, last.node).image[1].scalars.data = <<1, 0>>
    /\ Cardinality(VolumeNodeIds(scene)) = 2

\* C7: no step removes a node from the scene
C7_NoNodeRemoved ==
    [][NodeIds(scene) \subseteq NodeIds(scene')]_vars

C7_Witness ==
    /\ last.op = "create_segmentation_node"
    /\ last.exc # NoExc
    /\ Len(scene) = MaxNodes

\* C8: every segment that create_segmentation_node_from_numpy_array adds holds
\* an oriented image with the directions the reference volume node had when the
\* call began and has the name class_names gives its label; the reference
\* volume node and the source grid are as they were
C8_SegmentsFollowReferenceVolume ==
    [][(scene' # scene /\ last'.op = "create_segmentation_node") =>
          LET n == GetNode(scene', NewId(scene))
              ref == GetNode(scene, last'.vol_node)
          IN  /\ n.reference = last'.vol_node
              /\ \A i \in DOMAIN n.segments :
                    /\ n.segments[i].labelmap.oriented
                    /\ n.segments[i].labelmap.directions = ref.directions
                    /\ n.segments[i].name = last'.class_names[i][2]
                    /\ n.segments[i].labelmap.scalars.data =
                           Indicator(Grid, last'.class_names[i][1])
              /\ GetNode(scene', last'.vol_node) = ref
              /\ array' = array]_vars

C8_Witness ==
    /\ Succeeded("create_segmentation_node")
    /\ Len(GetNode(scene, last.node).segments) = 2
    /\ GetNode(scene, last.node).segments[2].labelmap.directions = Flip3
    /\ GetNode(scene, last.node).segments[2].name = "heart"

C9_OwnedOrShared ==
    /\ last.op \in {"create_volume_node", "create_segmentation_node"} => last.copy
    /\ \A img \in SceneImages(scene) : img.scalars.owner /\ img.scalars.ptr = "none"
    /\ Succeeded("create_image_data") =>
          /\ last.image[1].scalars.owner <=> last.copy
          /\ ~last.copy =>
                /\ last.image[1].scalars.ptr = "array"
                /\ Scalars(last.image[1], array) = Grid.data

C9_WriteLeavesSceneImages ==
    array' # array =>
        \A img \in SceneImages(scene) : Scalars(img, array') = Scalars(img, array)

\* C9: the registration entry points convert with the default, which copies:
\* every image a scene node holds owns its storage and no write to the grid
\* of the caller changes it; only an image converted with copy disabled points
\* at the grid of the caller, and it shows what the grid holds after each write
C9_SceneImagesOwnTheirStorage ==
    [](C9_OwnedOrShared) /\ [][C9_WriteLeavesSceneImages]_vars

C9_Witness ==
    /\ Succeeded("create_volume_node")
    /\ GetNode(scene, last.node).image[1].scalars.data = <<0, 0>>
    /\ Grid.data = <<1, 1>>

\* C10: a registration call that raises leaves the scene as it was
C10_FailedCallLeavesScene ==
    [][(array' = array /\ last'.exc # NoExc
          /\ last'.op \in {"create_volume_node", "create_segmentation_node"}) =>
          scene' = scene]_vars

====
